---------------------------- MODULE Spec2Model ----------------------------
(***************************************************************************)
(* CertForge (src/certforge.go): one invocation of main, from flag parsing *)
(* to process exit, on a disk that outlives the invocation, so that a file *)
(* written by a generating run can be decoded by a following run.          *)
(*                                                                         *)
(* Strings are sequences of ASCII codes (Go strings are byte sequences):   *)
(* <<97, 46, 98>> is "a.b".  The value of an X.509 extension is a sequence *)
(* of DER bytes and is encoded and parsed byte by byte as encoding/asn1    *)
(* does.  The remaining DER structures (certificate, request, key) are     *)
(* records holding the fields the program reads or writes.                 *)
(***************************************************************************)
EXTENDS Integers, Sequences, FiniteSets, TLC

(***************************************************************************)
(* Bounds of the model.                                                    *)
(***************************************************************************)
\* longest SAN list an operator enters
MaxSans == 2

(***************************************************************************)
(* strings                                                                 *)
(***************************************************************************)
\* unicode.IsSpace on the ASCII range: \t \n \v \f \r and space
IsSpace(c) == c \in {9, 10, 11, 12, 13, 32}

RECURSIVE TrimLeft(_)
TrimLeft(s) ==
    IF s # <<>> /\ IsSpace(Head(s)) THEN TrimLeft(Tail(s)) ELSE s

RECURSIVE TrimRight(_)
TrimRight(s) ==
    IF s # <<>> /\ IsSpace(s[Len(s)]) THEN TrimRight(SubSeq(s, 1, Len(s) - 1)) ELSE s

\* strings.TrimSpace
TrimSpace(s) == TrimRight(TrimLeft(s))

\* strings.ToLower on ASCII
ToLower(s) == [i \in 1..Len(s) |-> IF s[i] >= 65 /\ s[i] <= 90 THEN s[i] + 32 ELSE s[i]]

\* strings.Contains(s, ".")
ContainsDot(s) == \E i \in 1..Len(s) : s[i] = 46

IsDigit(c) == c >= 48 /\ c <= 57

RECURSIVE DigitPrefix(_)
DigitPrefix(s) ==
    IF s # <<>> /\ IsDigit(Head(s)) THEN <<Head(s)>> \o DigitPrefix(Tail(s)) ELSE <<>>

RECURSIVE DecimalValue(_)
DecimalValue(ds) ==
    IF ds = <<>> THEN 0 ELSE DecimalValue(SubSeq(ds, 1, Len(ds) - 1)) * 10 + (ds[Len(ds)] - 48)

\* fmt.Sscanf(s, "%d", &v): leading blanks are skipped, an optional sign and
\* the longest run of digits are read, what follows is left unread; with no
\* digit the scan fails and v keeps the value it had.
SscanfInt(s, old) ==
    LET t    == TrimLeft(s)
        neg  == t # <<>> /\ Head(t) = 45
        sgn  == t # <<>> /\ Head(t) \in {43, 45}
        body == IF sgn THEN Tail(t) ELSE t
        ds   == DigitPrefix(body)
    IN  IF ds = <<>> THEN old
        ELSE IF neg THEN 0 - DecimalValue(ds) ELSE DecimalValue(ds)

\* strings.Join(parts, ", ")
RECURSIVE Join(_)
Join(parts) ==
    IF parts = <<>> THEN <<>>
    ELSE IF Len(parts) = 1 THEN parts[1]
    ELSE parts[1] \o <<44, 32>> \o Join(Tail(parts))

(***************************************************************************)
(* encoding/asn1, as far as the program uses it                            *)
(***************************************************************************)
\* asn1.appendTagAndLength: identifier octet (class, constructed bit, tag
\* below 31) and the length in short form or in one-octet long form.
appendTagAndLength(class, tag, length, isCompound) ==
    <<class * 64 + (IF isCompound THEN 32 ELSE 0) + tag>>
        \o (IF length < 128 THEN <<length>> ELSE <<129, length>>)

\* asn1.Marshal of one asn1.RawValue without FullBytes
MarshalRawValue(rv) ==
    appendTagAndLength(rv.Class, rv.Tag, Len(rv.Bytes), rv.IsCompound) \o rv.Bytes

RECURSIVE MarshalAll(_)
MarshalAll(rvs) ==
    IF rvs = <<>> THEN <<>> ELSE MarshalRawValue(Head(rvs)) \o MarshalAll(Tail(rvs))

\* asn1.Marshal of a []asn1.RawValue: a universal SEQUENCE of the elements
MarshalRawValues(rvs) ==
    LET body == MarshalAll(rvs)
    IN  appendTagAndLength(0, 16, Len(body), TRUE) \o body

\* asn1.parseTagAndLength at a 0-based offset.  The high-tag-number form and
\* lengths of more than one octet fail here: no input of the model has them.
parseTagAndLength(bytes, offset) ==
    LET bad == [ok |-> FALSE, class |-> 0, tag |-> 0, isCompound |-> FALSE,
                length |-> 0, offset |-> offset]
    IN  IF offset + 2 > Len(bytes) THEN bad
        ELSE LET b  == bytes[offset + 1]
                 l  == bytes[offset + 2]
                 hd == [ok |-> TRUE, class |-> b \div 64, tag |-> b % 32,
                        isCompound |-> (b \div 32) % 2 = 1,
                        length |-> l, offset |-> offset + 2]
             IN  IF b % 32 = 31 THEN bad
                 ELSE IF l < 128 THEN hd
                 ELSE IF l = 129 /\ offset + 3 <= Len(bytes) /\ bytes[offset + 3] >= 128
                      THEN [hd EXCEPT !.length = bytes[offset + 3], !.offset = offset + 3]
                 ELSE bad

\* asn1.Unmarshal(b, &v) with v an asn1.RawValue: one element of any class and
\* tag, and the bytes that follow it
RawValueAt(b, t) ==
    IF ~t.ok \/ t.offset + t.length > Len(b)
    THEN [err |-> TRUE, val |-> <<>>, rest |-> <<>>]
    ELSE [err  |-> FALSE,
          val  |-> [Class |-> t.class, Tag |-> t.tag, IsCompound |-> t.isCompound,
                    Bytes |-> SubSeq(b, t.offset + 1, t.offset + t.length)],
          rest |-> SubSeq(b, t.offset + t.length + 1, Len(b))]

UnmarshalRawValue(b) == RawValueAt(b, parseTagAndLength(b, 0))

\* asn1.parseSequenceOf with element type asn1.RawValue: the elements of a
\* sequence's contents; err when an element is cut short
RECURSIVE parseSequenceOf(_)
Elements(e, r) == [err |-> r.err, vals |-> IF r.err THEN <<>> ELSE <<e.val>> \o r.vals]

ElementsFrom(e) ==
    IF e.err THEN [err |-> TRUE, vals |-> <<>>] ELSE Elements(e, parseSequenceOf(e.rest))

parseSequenceOf(b) ==
    IF b = <<>> THEN [err |-> FALSE, vals |-> <<>>] ELSE ElementsFrom(UnmarshalRawValue(b))

\* asn1.Unmarshal(b, &v) with v a []asn1.RawValue: parseField expects the
\* header of a universal constructed SEQUENCE at the start of b
SliceOf(r, rest) ==
    IF r.err THEN [err |-> TRUE, vals |-> <<>>, rest |-> <<>>]
    ELSE [err |-> FALSE, vals |-> r.vals, rest |-> rest]

SliceAt(b, t) ==
    IF ~t.ok \/ t.class # 0 \/ t.tag # 16 \/ ~t.isCompound \/ t.offset + t.length > Len(b)
    THEN [err |-> TRUE, vals |-> <<>>, rest |-> <<>>]
    ELSE SliceOf(parseSequenceOf(SubSeq(b, t.offset + 1, t.offset + t.length)),
                 SubSeq(b, t.offset + t.length + 1, Len(b)))

UnmarshalRawValues(b) == SliceAt(b, parseTagAndLength(b, 0))

(***************************************************************************)
(* crypto/x509/pkix: distinguished names.  An attribute type is the last   *)
(* arc of its OID 2.5.4.x: 3 CN, 6 C, 7 L, 8 ST, 10 O, 11 OU.              *)
(***************************************************************************)
\* Name.appendRDNs: one RDN holding every value of the field, none when the
\* field has no value (an empty string in the slice is a value)
appendRDNs(in, values, oid) ==
    IF Len(values) = 0 THEN in
    ELSE in \o << [i \in 1..Len(values) |-> [Type |-> oid, Value |-> values[i]]] >>

\* Name.ToRDNSequence: C, ST, L, O, OU, then CN when it is not empty
ToRDNSequence(n) ==
    LET r1 == appendRDNs(<<>>, n.Country, 6)
        r2 == appendRDNs(r1, n.Province, 8)
        r3 == appendRDNs(r2, n.Locality, 7)
        r4 == appendRDNs(r3, n.Organization, 10)
        r5 == appendRDNs(r4, n.OrganizationalUnit, 11)
    IN  IF Len(n.CommonName) > 0 THEN appendRDNs(r5, <<n.CommonName>>, 3) ELSE r5

EmptyName ==
    [CommonName |-> <<>>, Organization |-> <<>>, OrganizationalUnit |-> <<>>,
     Country |-> <<>>, Province |-> <<>>, Locality |-> <<>>]

\* one attribute of Name.FillFromRDNSequence
FillAttribute(n, atv) ==
    CASE atv.Type = 3  -> [n EXCEPT !.CommonName = atv.Value]
      [] atv.Type = 6  -> [n EXCEPT !.Country = Append(@, atv.Value)]
      [] atv.Type = 7  -> [n EXCEPT !.Locality = Append(@, atv.Value)]
      [] atv.Type = 8  -> [n EXCEPT !.Province = Append(@, atv.Value)]
      [] atv.Type = 10 -> [n EXCEPT !.Organization = Append(@, atv.Value)]
      [] atv.Type = 11 -> [n EXCEPT !.OrganizationalUnit = Append(@, atv.Value)]
      [] OTHER -> n

RECURSIVE FillRDN(_, _)
FillRDN(n, rdn) ==
    IF rdn = <<>> THEN n ELSE FillRDN(FillAttribute(n, Head(rdn)), Tail(rdn))

RECURSIVE FillFrom(_, _)
FillFrom(n, rdns) ==
    IF rdns = <<>> THEN n ELSE FillFrom(FillRDN(n, Head(rdns)), Tail(rdns))

\* Name.FillFromRDNSequence on a fresh Name
FillFromRDNSequence(rdns) == FillFrom(EmptyName, rdns)

(***************************************************************************)
(* formatName (certforge.go)                                               *)
(***************************************************************************)
\* the components "<label>=<value>" of one repeated field, in order
LabelEach(label, values) == [i \in 1..Len(values) |-> label \o <<61>> \o values[i]]

\* the parts slice of formatName: CN if not empty, then every O, OU, C, ST, L
formatNameParts(name) ==
    (IF name.CommonName # <<>> THEN << <<67, 78, 61>> \o name.CommonName >> ELSE <<>>)
        \o LabelEach(<<79>>, name.Organization)
        \o LabelEach(<<79, 85>>, name.OrganizationalUnit)
        \o LabelEach(<<67>>, name.Country)
        \o LabelEach(<<83, 84>>, name.Province)
        \o LabelEach(<<76>>, name.Locality)

formatName(name) == Join(formatNameParts(name))

(***************************************************************************)
(* crypto/x509.  A DER structure is a record whose field der names what it *)
(* encodes: "csr", "cert", "pkcs1", "pkcs8", or "junk" for bytes that parse *)
(* as nothing.  Extension values are DER bytes.                            *)
(***************************************************************************)
\* OID 2.5.29.17, subjectAltName
oidSubjectAltName == <<2, 5, 29, 17>>

\* the Bytes of the elements of rvs that are context-specific primitive [2]
RECURSIVE DNSOf(_)
DNSOf(rvs) ==
    IF rvs = <<>> THEN <<>>
    ELSE (IF Head(rvs).Class = 2 /\ Head(rvs).Tag = 2 THEN <<Head(rvs).Bytes>> ELSE <<>>)
             \o DNSOf(Tail(rvs))

\* x509.parseSANExtension: the value is one universal constructed SEQUENCE
\* with nothing after it, whose contents are whole elements; the dNSName
\* entries are the [2] elements.  Anything else is an error.
SANEntries(r) ==
    IF r.err THEN [err |-> TRUE, DNSNames |-> <<>>]
    ELSE [err |-> FALSE, DNSNames |-> DNSOf(r.vals)]

SANSequence(o) ==
    IF o.err \/ o.rest # <<>> THEN [err |-> TRUE, DNSNames |-> <<>>]
    ELSE IF ~o.val.IsCompound \/ o.val.Tag # 16 \/ o.val.Class # 0
         THEN [err |-> TRUE, DNSNames |-> <<>>]
    ELSE SANEntries(parseSequenceOf(o.val.Bytes))

parseSANExtension(value) == SANSequence(UnmarshalRawValue(value))

\* the parse of every subjectAltName extension of a list: err if one fails,
\* DNSNames of the last one
RECURSIVE parseSANs(_, _)
SANsAfter(r, exts) == IF r.err THEN r ELSE parseSANs(exts, r.DNSNames)

parseSANs(exts, names) ==
    IF exts = <<>> THEN [err |-> FALSE, DNSNames |-> names]
    ELSE IF Head(exts).Id = oidSubjectAltName
         THEN SANsAfter(parseSANExtension(Head(exts).Value), Tail(exts))
         ELSE parseSANs(Tail(exts), names)

\* x509.marshalSANs, DNS names only: the extension CreateCertificate adds
marshalSANs(dnsNames) ==
    MarshalRawValues([i \in 1..Len(dnsNames) |->
        [Class |-> 2, Tag |-> 2, IsCompound |-> FALSE, Bytes |-> dnsNames[i]]])

\* x509.CreateCertificateRequest: subject as RDN sequence, the template's
\* ExtraExtensions in the extension request, signed with the key
CreateCertificateRequest(template, key) ==
    [der |-> "csr", Subject |-> ToRDNSequence(template.Subject),
     Extensions |-> template.ExtraExtensions,
     SignatureAlgorithm |-> template.SignatureAlgorithm,
     PublicKey |-> key.id, SigOK |-> TRUE]

\* x509.ParseCertificateRequest: fails on bytes that are no request and on a
\* subjectAltName extension that parseSANExtension rejects
RequestOf(bytes, san) ==
    IF san.err THEN [err |-> TRUE]
    ELSE [err |-> FALSE, Subject |-> FillFromRDNSequence(bytes.Subject),
          Extensions |-> bytes.Extensions,
          DNSNames |-> san.DNSNames,
          SignatureAlgorithm |-> bytes.SignatureAlgorithm,
          SigOK |-> bytes.SigOK]

ParseCertificateRequest(bytes) ==
    IF bytes.der # "csr" THEN [err |-> TRUE]
    ELSE RequestOf(bytes, parseSANs(bytes.Extensions, <<>>))

\* x509.CreateCertificate that leaves the issuer empty
CreateCertificateWithoutIssuer(template, parent, key) ==
    [der |-> "cert", Subject |-> ToRDNSequence(template.Subject),
     Issuer |-> <<>>,
     SerialNumber |-> template.SerialNumber,
     NotBefore |-> template.NotBefore, NotAfter |-> template.NotAfter,
     KeyUsage |-> template.KeyUsage, ExtKeyUsage |-> template.ExtKeyUsage,
     Extensions |-> IF Len(template.DNSNames) > 0
                    THEN << [Id |-> oidSubjectAltName, Value |-> marshalSANs(template.DNSNames)] >>
                    ELSE <<>>,
     SignatureAlgorithm |-> "SHA256-RSA", PublicKey |-> key.id]

\* x509.CreateCertificate(rand, template, parent, pub, priv) with parent the
\* template itself: issuer is the parent's subject
CreateCertificate(template, parent, key) ==
    [der |-> "cert", Subject |-> ToRDNSequence(template.Subject),
     Issuer |-> ToRDNSequence(parent.Subject),
     SerialNumber |-> template.SerialNumber,
     NotBefore |-> template.NotBefore, NotAfter |-> template.NotAfter,
     KeyUsage |-> template.KeyUsage, ExtKeyUsage |-> template.ExtKeyUsage,
     Extensions |-> IF Len(template.DNSNames) > 0
                    THEN << [Id |-> oidSubjectAltName, Value |-> marshalSANs(template.DNSNames)] >>
                    ELSE <<>>,
     SignatureAlgorithm |-> "SHA256-RSA", PublicKey |-> key.id]

\* x509.ParseCertificate
CertificateOf(bytes, san) ==
    IF san.err THEN [err |-> TRUE]
    ELSE [err |-> FALSE, Subject |-> FillFromRDNSequence(bytes.Subject),
          Issuer |-> FillFromRDNSequence(bytes.Issuer),
          SerialNumber |-> bytes.SerialNumber,
          NotBefore |-> bytes.NotBefore, NotAfter |-> bytes.NotAfter,
          KeyUsage |-> bytes.KeyUsage, ExtKeyUsage |-> bytes.ExtKeyUsage,
          DNSNames |-> san.DNSNames,
          SignatureAlgorithm |-> bytes.SignatureAlgorithm]

ParseCertificate(bytes) ==
    IF bytes.der # "cert" THEN [err |-> TRUE]
    ELSE CertificateOf(bytes, parseSANs(bytes.Extensions, <<>>))

\* x509.MarshalPKCS1PrivateKey
MarshalPKCS1PrivateKey(key) == [der |-> "pkcs1", key |-> key]

\* x509.ParsePKCS1PrivateKey
ParsePKCS1PrivateKey(bytes) ==
    IF bytes.der # "pkcs1" THEN [err |-> TRUE] ELSE [err |-> FALSE, key |-> bytes.key]

\* x509.ParsePKCS8PrivateKey: the wrapped key, RSA or of another algorithm
ParsePKCS8PrivateKey(bytes) ==
    IF bytes.der # "pkcs8" THEN [err |-> TRUE]
    ELSE [err |-> FALSE, alg |-> bytes.alg, key |-> bytes.key]

\* attributeTypeNames of crypto/x509/pkix for the last arc of 2.5.4.x
TypeName(oid) ==
    CASE oid = 3  -> <<67, 78>>
      [] oid = 6  -> <<67>>
      [] oid = 7  -> <<76>>
      [] oid = 8  -> <<83, 84>>
      [] oid = 10 -> <<79>>
      [] OTHER    -> <<79, 85>>

\* RDNSequence.String escapes , + " \ < > ; everywhere, a space at either
\* end and # at the start of a value
Escaped(c, k, n) ==
    \/ c \in {44, 43, 34, 92, 60, 62, 59}
    \/ (c = 32 /\ (k = 1 \/ k = n))
    \/ (c = 35 /\ k = 1)

RECURSIVE EscapeFrom(_, _)
EscapeFrom(v, k) ==
    IF k > Len(v) THEN <<>>
    ELSE (IF Escaped(v[k], k, Len(v)) THEN <<92, v[k]>> ELSE <<v[k]>>) \o EscapeFrom(v, k + 1)

\* "<type>=<escaped value>"
AttributeString(tv) == TypeName(tv.Type) \o <<61>> \o EscapeFrom(tv.Value, 1)

\* the attributes of one RDN joined with "+"
RECURSIVE RDNString(_)
RDNString(rdn) ==
    IF Len(rdn) = 1 THEN AttributeString(rdn[1])
    ELSE AttributeString(Head(rdn)) \o <<43>> \o RDNString(Tail(rdn))

\* RDNSequence.String: the RDNs last to first, joined with ","
RECURSIVE RDNSequenceString(_)
RDNSequenceString(r) ==
    IF r = <<>> THEN <<>>
    ELSE IF Len(r) = 1 THEN RDNString(r[1])
    ELSE RDNString(r[Len(r)]) \o <<44>> \o RDNSequenceString(SubSeq(r, 1, Len(r) - 1))

\* pkix.Name.String for a parsed name without non-standard attributes
NameString(name) == RDNSequenceString(ToRDNSequence(name))

(***************************************************************************)
(* Files.  A file's content is a sequence of items: a PEM block            *)
(* [pem |-> TRUE, Type, Bytes] or a stretch of text that is no PEM block.   *)
(***************************************************************************)
Garbage == [pem |-> FALSE, Type |-> "", Bytes |-> [der |-> "junk"]]

PemBlock(type, bytes) == [pem |-> TRUE, Type |-> type, Bytes |-> bytes]

\* a decoder that keeps reading and returns the last PEM block of the data
RECURSIVE pemDecodeLast(_)
pemDecodeLast(data) ==
    IF data = <<>> THEN [found |-> FALSE, block |-> Garbage, rest |-> <<>>]
    ELSE IF data[Len(data)].pem
         THEN [found |-> TRUE, block |-> data[Len(data)], rest |-> <<>>]
    ELSE pemDecodeLast(SubSeq(data, 1, Len(data) - 1))

\* encoding/pem.Decode: the first PEM block of the data, text before it
\* skipped, and what follows the block; found is FALSE when there is none
RECURSIVE pemDecode(_)
pemDecode(data) ==
    IF data = <<>> THEN [found |-> FALSE, block |-> Garbage, rest |-> <<>>]
    ELSE IF Head(data).pem THEN [found |-> TRUE, block |-> Head(data), rest |-> Tail(data)]
    ELSE pemDecode(Tail(data))

(***************************************************************************)
(* Printed output: a sequence of lines, each a tuple whose first element   *)
(* is the fixed text of the line and whose second, if any, is the value.   *)
(***************************************************************************)
DNSLines(names) == [i \in 1..Len(names) |-> <<"  DNS: ", names[i]>>]

\* the key usage bits in the order printCertificateInfo tests them
KeyUsageBits ==
    << <<1, "  Digital Signature">>, <<2, "  Content Commitment">>,
       <<4, "  Key Encipherment">>, <<8, "  Data Encipherment">>,
       <<16, "  Key Agreement">>, <<32, "  Certificate Sign">>,
       <<64, "  CRL Sign">>, <<128, "  Encipher Only">>, <<256, "  Decipher Only">> >>

RECURSIVE KeyUsageLines(_, _)
KeyUsageLines(ku, bits) ==
    IF bits = <<>> THEN <<>>
    ELSE (IF (ku \div Head(bits)[1]) % 2 = 1 THEN << <<Head(bits)[2]>> >> ELSE <<>>)
             \o KeyUsageLines(ku, Tail(bits))

\* x509.ExtKeyUsage values with a case in printCertificateInfo's switch
ExtKeyUsageLine(u) ==
    CASE u = 1 -> << <<"  Server Authentication">> >>
      [] u = 2 -> << <<"  Client Authentication">> >>
      [] u = 3 -> << <<"  Code Signing">> >>
      [] u = 4 -> << <<"  Email Protection">> >>
      [] u = 8 -> << <<"  Time Stamping">> >>
      [] u = 9 -> << <<"  OCSP Signing">> >>
      [] OTHER -> <<>>

RECURSIVE ExtKeyUsageLines(_)
ExtKeyUsageLines(us) ==
    IF us = <<>> THEN <<>> ELSE ExtKeyUsageLine(Head(us)) \o ExtKeyUsageLines(Tail(us))

printCertificateInfo(cert) ==
    << <<"=== Certificate Information ===">>,
       <<"Subject: ", formatName(cert.Subject)>>,
       <<"Issuer: ", formatName(cert.Issuer)>>,
       <<"Serial Number: ", cert.SerialNumber>>,
       <<"Not Before: ", cert.NotBefore>>,
       <<"Not After: ", cert.NotAfter>>,
       <<"Signature Algorithm: ", cert.SignatureAlgorithm>> >>
    \o (IF Len(cert.DNSNames) > 0
        THEN << <<"Subject Alternative Names:">> >> \o DNSLines(cert.DNSNames)
        ELSE <<>>)
    \o << <<"Self-signed: ", NameString(cert.Subject) = NameString(cert.Issuer)>>,
          <<"Key Usage:">> >>
    \o KeyUsageLines(cert.KeyUsage, KeyUsageBits)
    \o (IF Len(cert.ExtKeyUsage) > 0
        THEN << <<"Extended Key Usage:">> >> \o ExtKeyUsageLines(cert.ExtKeyUsage)
        ELSE <<>>)

\* the body of printCSRInfo's loop for one subjectAltName extension: the
\* names it appends to dnsNames
\* 185-191: the second Unmarshal and the loop over rawValues
csrRawValueNames(rawValues) ==
    IF rawValues.err \/ rawValues.rest # <<>> THEN <<>> ELSE DNSOf(rawValues.vals)

\* 182-192: the first Unmarshal's result seq, then the second on seq.Bytes
csrSeqNames(seq) ==
    IF seq.err \/ seq.rest # <<>> THEN <<>>
    ELSE IF seq.val.Class = 0 /\ seq.val.Tag = 16
         THEN csrRawValueNames(UnmarshalRawValues(seq.val.Bytes))
         ELSE <<>>

csrSANNames(value) == csrSeqNames(UnmarshalRawValue(value))

\* printCSRInfo's loop over csr.Extensions
RECURSIVE csrDNSNames(_)
csrDNSNames(exts) ==
    IF exts = <<>> THEN <<>>
    ELSE (IF Head(exts).Id = oidSubjectAltName THEN csrSANNames(Head(exts).Value) ELSE <<>>)
             \o csrDNSNames(Tail(exts))

\* 171-173 and 197-210, given the dnsNames the loop collected
csrLines(csr, dnsNames) ==
    << <<"=== Certificate Signing Request Information ===">>,
       <<"Subject: ", formatName(csr.Subject)>>,
       <<"Signature Algorithm: ", csr.SignatureAlgorithm>> >>
    \o (IF Len(dnsNames) > 0
        THEN << <<"Subject Alternative Names:">> >> \o DNSLines(dnsNames)
        ELSE <<>>)
    \o << <<"Signature Valid: ", csr.SigOK>> >>
    \o (IF ~csr.SigOK THEN << <<"Signature Error: ">> >> ELSE <<>>)

printCSRInfo(csr) == csrLines(csr, csrDNSNames(csr.Extensions))

printRSAKeyInfo(key) ==
    << <<"=== RSA Private Key Information ===">>,
       <<"Key Size: ", key.bits>>,
       <<"Public Exponent: ", key.E>>,
       <<"Public Key Fingerprint (SHA-256): ", key.id>>,
       IF key.valid THEN <<"Key is valid">> ELSE <<"Key Validation Error: ">> >>

\* decodeFile's switch on block.Type
\* 55-60
decodeCertificate(cert) ==
    IF cert.err THEN [err |-> "Failed to parse certificate", out |-> <<>>]
    ELSE [err |-> "", out |-> printCertificateInfo(cert)]

\* 62-67 with the signature checked before anything is printed
decodeCSRVerified(csr) ==
    IF csr.err THEN [err |-> "Failed to parse CSR", out |-> <<>>]
    ELSE IF ~csr.SigOK THEN [err |-> "Failed to verify CSR", out |-> <<>>]
    ELSE [err |-> "", out |-> printCSRInfo(csr)]

\* 62-67
decodeCSR(csr) ==
    IF csr.err THEN [err |-> "Failed to parse CSR", out |-> <<>>]
    ELSE [err |-> "", out |-> printCSRInfo(csr)]

\* 69-74
decodeRSAKey(key) ==
    IF key.err THEN [err |-> "Failed to parse RSA private key", out |-> <<>>]
    ELSE [err |-> "", out |-> printRSAKeyInfo(key.key)]

\* 76-86 without the type assertion: any PKCS#8 key is summarised
decodePKCS8KeyOfAnyType(key) ==
    IF key.err THEN [err |-> "Failed to parse private key", out |-> <<>>]
    ELSE [err |-> "", out |-> printRSAKeyInfo(key.key)]

\* 76-86
decodePKCS8Key(key) ==
    IF key.err THEN [err |-> "Failed to parse private key", out |-> <<>>]
    ELSE IF key.alg = "RSA" THEN [err |-> "", out |-> printRSAKeyInfo(key.key)]
    ELSE [err |-> "Unsupported private key type", out |-> <<>>]

\* decodeFile's switch on block.Type (54-90)
decodeBlock(block) ==
    CASE block.Type = "CERTIFICATE" -> decodeCertificate(ParseCertificate(block.Bytes))
      [] block.Type = "CERTIFICATE REQUEST" ->
            decodeCSR(ParseCertificateRequest(block.Bytes))
      [] block.Type = "RSA PRIVATE KEY" -> decodeRSAKey(ParsePKCS1PrivateKey(block.Bytes))
      [] block.Type = "PRIVATE KEY" -> decodePKCS8Key(ParsePKCS8PrivateKey(block.Bytes))
      [] OTHER -> [err |-> "Unsupported PEM block type", out |-> <<>>]

\* 47-51, then the switch
decodeData(p) ==
    IF ~p.found THEN [err |-> "Failed to parse PEM block from file", out |-> <<>>]
    ELSE decodeBlock(p.block)

\* decodeFile(filePath) on disk d: the error returned ("" for nil) and the
\* lines printed
decodeFile(d, filePath) ==
    IF filePath \notin DOMAIN d THEN [err |-> "Error reading file", out |-> <<>>]
    ELSE decodeData(pemDecode(d[filePath]))

(***************************************************************************)
(* time.  A time.Duration is an int64 count of nanoseconds.  The model     *)
(* counts in units of 2^16 ns and writes a count as <<hi, lo>>, its value  *)
(* hi * 2^24 + lo with 0 <= lo < 2^24, so that an int64 is the 48-bit      *)
(* signed range of hi in -2^23 .. 2^23 - 1.  24 hours are 86400 * 10^9 ns, *)
(* which is 1318359375 units: 78 * 2^24 + 2377 * 2^12 + 335.               *)
(***************************************************************************)
\* days * 24h as an exact integer, for |days| below 2^18
DaysTimes24h(days) ==
    LET p0    == days * 335
        p1    == days * 2377
        p2    == days * 78
        loRaw == (p1 % 4096) * 4096 + p0
    IN  << p2 + (p1 \div 4096) + (loRaw \div 16777216), loRaw % 16777216 >>

\* an integer reduced to int64, as Go's wrapping multiplication leaves it
Int64(d) == << ((d[1] + 8388608) % 16777216) - 8388608, d[2] >>

\* time.Duration(validDays) * 24 * time.Hour
DurationOfDays(days) == Int64(DaysTimes24h(days))

\* Time.Add, on times counted in the same units from the epoch
TimeAdd(t, d) ==
    << t[1] + d[1] + ((t[2] + d[2]) \div 16777216), (t[2] + d[2]) % 16777216 >>

\* Time.Sub
TimeSub(t, u) ==
    << t[1] - u[1] + ((t[2] - u[2]) \div 16777216), (t[2] - u[2]) % 16777216 >>

\* time.Now() of the run
Now == <<1630000, 12345>>

(***************************************************************************)
(* The state of a run of main, and of the machine it runs on.              *)
(***************************************************************************)
VARIABLES
    args,               \* the parsed command line
    stdin,              \* the lines of standard input not read yet
    fs,                 \* the disk: path -> content, for the files that exist
    dirs,               \* the directories that exist
    pc,                 \* where main is
    exitCode,           \* the exit code, once pc = "exit"
    err,                \* the error of the step that failed, "" for nil
    out,                \* the lines printed
    commonName, organization, organizationalUnit, country, state, locality,
    emailAddress,
    keySizeStr, keySize, filePrefix,
    selfSigned, createSelfsigned, validDaysStr, validDays,
    addSANs, sans,
    privateKey, subj, template, csrBytes,
    keyPath, csrPath, crtPath,
    notBefore, notAfter, serialNumber, certTemplate, derBytes

envVars     == <<args, stdin, fs, dirs>>
ctlVars     == <<pc, exitCode, err, out>>
subjectVars == <<commonName, organization, organizationalUnit, country, state,
                 locality, emailAddress>>
keyInVars   == <<keySizeStr, keySize, filePrefix>>
certInVars  == <<selfSigned, createSelfsigned, validDaysStr, validDays>>
sanVars     == <<addSANs, sans>>
builtVars   == <<privateKey, subj, template, csrBytes>>
pathVars    == <<keyPath, csrPath, crtPath>>
certVars    == <<notBefore, notAfter, serialNumber, certTemplate, derBytes>>
inputVars   == <<subjectVars, keyInVars, certInVars, sanVars>>
genVars     == <<inputVars, builtVars, pathVars, certVars>>
vars        == <<envVars, ctlVars, genVars>>

\* a file path: directory and file name; NoPath is the empty string
Path(dir, name) == [dir |-> dir, name |-> name]
NoPath == Path(<<>>, <<>>)

\* filepath.Join(outputDir, filePrefix + ext) when outputDir is set, else
\* filePrefix + ext
OutputPath(outputDir, prefix, ext) == Path(outputDir, prefix \o ext)

NoKey == [id |-> 0, bits |-> 0, E |-> 0, valid |-> FALSE]
NoDER == [der |-> "junk"]
NoTemplate == [Subject |-> EmptyName, SignatureAlgorithm |-> "", ExtraExtensions |-> <<>>]
NoCertTemplate ==
    [SerialNumber |-> 0, Subject |-> EmptyName, NotBefore |-> <<0, 0>>,
     NotAfter |-> <<0, 0>>, KeyUsage |-> 0, ExtKeyUsage |-> <<>>,
     BasicConstraintsValid |-> FALSE, DNSNames |-> <<>>]

(***************************************************************************)
(* main (certforge.go 327-651), one action per step.                       *)
(***************************************************************************)
\* reader.ReadString('\n'): the next line, "" at end of input (the error is
\* dropped by every caller)
ReadLine(in) == IF in = <<>> THEN <<>> ELSE Head(in)
RestOf(in) == IF in = <<>> THEN <<>> ELSE Tail(in)

\* os.Exit(code), or main returning with code 0, after printing lines
Exit(code, lines) ==
    /\ pc' = "exit"
    /\ exitCode' = code
    /\ out' = out \o lines

\* flag.Parse() (339): the flag package prints the usage and exits with
\* status 2 on a command line it rejects
FlagParse ==
    /\ pc = "flags"
    /\ IF args.bad
       THEN Exit(2, << <<"flag: usage">> >>)
       ELSE pc' = "dispatch" /\ UNCHANGED <<exitCode, out>>
    /\ UNCHANGED <<envVars, err, genVars>>

\* 341-345
ShowHelp ==
    /\ pc = "dispatch"
    /\ args.help
    /\ Exit(0, << <<"CertForge - TLS Certificate Generator">>, <<"Usage:">> >>)
    /\ UNCHANGED <<envVars, err, genVars>>

\* 347-351
ShowVersion ==
    /\ pc = "dispatch"
    /\ ~args.help /\ args.version
    /\ Exit(0, << <<"CertForge ", "development">> >>)
    /\ UNCHANGED <<envVars, err, genVars>>

\* main returning without os.Exit(1) when decodeFile failed
DecodeExitCodeZero(e) == 0

\* the exit code main gives decodeFile's result (355-359)
DecodeExitCode(e) == IF e # "" THEN 1 ELSE 0

\* 355-359, given what decodeFile returned and printed
DecodeResult(r) ==
    /\ err' = r.err
    /\ Exit(DecodeExitCode(r.err),
            r.out \o (IF r.err # "" THEN << <<"Error: ", r.err>> >> ELSE <<>>))

\* 353-360 without the return after a successful decode
DecodeModeFallingThrough ==
    /\ pc = "dispatch"
    /\ ~args.help /\ ~args.version /\ args.decode # NoPath
    /\ IF decodeFile(fs, args.decode).err # ""
       THEN DecodeResult(decodeFile(fs, args.decode))
       ELSE /\ pc' = "subject"
            /\ out' = out \o decodeFile(fs, args.decode).out
            /\ UNCHANGED <<exitCode, err>>
    /\ UNCHANGED <<envVars, genVars>>

\* 353-360, with decodeFile
DecodeMode ==
    /\ pc = "dispatch"
    /\ ~args.help /\ ~args.version /\ args.decode # NoPath
    /\ DecodeResult(decodeFile(fs, args.decode))
    /\ UNCHANGED <<envVars, genVars>>

\* 362-366
StartGeneration ==
    /\ pc = "dispatch"
    /\ ~args.help /\ ~args.version /\ args.decode = NoPath
    /\ pc' = "subject"
    /\ out' = out \o << <<"CertForge - TLS Certificate Generator">> >>
    /\ UNCHANGED <<envVars, exitCode, err, genVars>>

\* the line at position i of the input, "" past its end
LineAt(in, i) == IF i <= Len(in) THEN in[i] ELSE <<>>

\* what is left of the input after n reads
Drop(in, n) == IF n >= Len(in) THEN <<>> ELSE SubSeq(in, n + 1, Len(in))

\* 368-401: seven prompts, each answer trimmed
ReadSubject ==
    /\ pc = "subject"
    /\ commonName' = TrimSpace(LineAt(stdin, 1))
    /\ organization' = TrimSpace(LineAt(stdin, 2))
    /\ organizationalUnit' = TrimSpace(LineAt(stdin, 3))
    /\ country' = TrimSpace(LineAt(stdin, 4))
    /\ state' = TrimSpace(LineAt(stdin, 5))
    /\ locality' = TrimSpace(LineAt(stdin, 6))
    /\ emailAddress' = TrimSpace(LineAt(stdin, 7))
    /\ stdin' = Drop(stdin, 7)
    /\ pc' = "keysize"
    /\ UNCHANGED <<args, fs, dirs, exitCode, err, out>>
    /\ UNCHANGED <<keyInVars, certInVars, sanVars, builtVars, pathVars, certVars>>

\* the validation as a range check instead of a lookup
ValidSizeInRange(k) == k >= 1024 /\ k <= 4096

\* validSizes[keySize] (411-412)
ValidSize(k) == k \in {2048, 3072, 4096}

\* 407-416: the key size for the trimmed answer
KeySizeFor(answer) ==
    IF answer # <<>>
    THEN LET k == SscanfInt(answer, 2048)
         IN  IF ~ValidSize(k) THEN 2048 ELSE k
    ELSE 2048

\* 403-416
ReadKeySize ==
    /\ pc = "keysize"
    /\ LET answer == TrimSpace(ReadLine(stdin))
       IN  /\ keySizeStr' = answer
           /\ keySize' = KeySizeFor(answer)
           /\ out' = out \o (IF answer # <<>> /\ ~ValidSize(SscanfInt(answer, 2048))
                             THEN << <<"Invalid key size. Using default: 2048">> >>
                             ELSE <<>>)
    /\ stdin' = RestOf(stdin)
    /\ pc' = "prefix"
    /\ UNCHANGED <<args, fs, dirs, exitCode, err, filePrefix>>
    /\ UNCHANGED <<subjectVars, certInVars, sanVars, builtVars, pathVars, certVars>>

\* 418-424; "cert" is the default prefix
ReadPrefix ==
    /\ pc = "prefix"
    /\ LET answer == TrimSpace(ReadLine(stdin))
       IN  filePrefix' = IF answer = <<>> THEN <<99, 101, 114, 116>> ELSE answer
    /\ stdin' = RestOf(stdin)
    /\ pc' = "selfsigned"
    /\ UNCHANGED <<args, fs, dirs, exitCode, err, out, keySizeStr, keySize>>
    /\ UNCHANGED <<subjectVars, certInVars, sanVars, builtVars, pathVars, certVars>>

\* the comparison with "yes" lost
IsYesLetter(answer) == answer = <<121>>

\* selfSigned == "y" || selfSigned == "yes" (435), and addSANs likewise (458)
IsYes(answer) == answer = <<121>> \/ answer = <<121, 101, 115>>

\* 426-436
AskSelfSigned ==
    /\ pc = "selfsigned"
    /\ validDays' = args.days
    /\ IF ~args.s
       THEN LET answer == TrimSpace(ToLower(ReadLine(stdin)))
            IN  /\ selfSigned' = answer
                /\ createSelfsigned' = IsYes(answer)
                /\ stdin' = RestOf(stdin)
       ELSE /\ createSelfsigned' = args.s
            /\ UNCHANGED <<selfSigned, stdin>>
    /\ pc' = "validity"
    /\ UNCHANGED <<args, fs, dirs, exitCode, err, out, validDaysStr>>
    /\ UNCHANGED <<subjectVars, keyInVars, sanVars, builtVars, pathVars, certVars>>

\* 443-449: the validity for the trimmed answer, given the value so far
ValidDaysFor(answer, current) ==
    IF answer # <<>>
    THEN LET d == SscanfInt(answer, current)
         IN  IF d <= 0 THEN 365 ELSE d
    ELSE current

\* 438-450
AskValidity ==
    /\ pc = "validity"
    /\ IF createSelfsigned /\ ~args.s
       THEN LET answer == TrimSpace(ReadLine(stdin))
            IN  /\ validDaysStr' = answer
                /\ validDays' = ValidDaysFor(answer, validDays)
                /\ out' = out \o (IF answer # <<>> /\ SscanfInt(answer, validDays) <= 0
                                  THEN << <<"Invalid validity period. Using default: 365 days">> >>
                                  ELSE <<>>)
                /\ stdin' = RestOf(stdin)
       ELSE UNCHANGED <<validDaysStr, validDays, out, stdin>>
    /\ pc' = "addsans"
    /\ UNCHANGED <<args, fs, dirs, exitCode, err, selfSigned, createSelfsigned>>
    /\ UNCHANGED <<subjectVars, keyInVars, sanVars, builtVars, pathVars, certVars>>

\* 452-459
AskSANs ==
    /\ pc = "addsans"
    /\ LET answer == TrimSpace(ToLower(ReadLine(stdin)))
       IN  /\ addSANs' = answer
           /\ pc' = IF IsYes(answer) THEN "sanloop" ELSE "keygen"
    /\ stdin' = RestOf(stdin)
    /\ UNCHANGED <<args, fs, dirs, exitCode, err, out, sans>>
    /\ UNCHANGED <<subjectVars, keyInVars, certInVars, builtVars, pathVars, certVars>>

\* 460-467 with continue where break should be: blank lines are skipped and
\* the loop ends at the end of the input
ReadSANSkippingBlanks ==
    /\ pc = "sanloop"
    /\ LET san == TrimSpace(ReadLine(stdin))
       IN  IF san = <<>>
           THEN pc' = (IF stdin = <<>> THEN "keygen" ELSE "sanloop") /\ UNCHANGED sans
           ELSE pc' = "sanloop" /\ sans' = Append(sans, san)
    /\ stdin' = RestOf(stdin)
    /\ UNCHANGED <<args, fs, dirs, exitCode, err, out, addSANs>>
    /\ UNCHANGED <<subjectVars, keyInVars, certInVars, builtVars, pathVars, certVars>>

\* 460-467, one turn of the loop
ReadSAN ==
    /\ pc = "sanloop"
    /\ LET san == TrimSpace(ReadLine(stdin))
       IN  IF san = <<>>
           THEN pc' = "keygen" /\ UNCHANGED sans
           ELSE pc' = "sanloop" /\ sans' = Append(sans, san)
    /\ stdin' = RestOf(stdin)
    /\ UNCHANGED <<args, fs, dirs, exitCode, err, out, addSANs>>
    /\ UNCHANGED <<subjectVars, keyInVars, certInVars, builtVars, pathVars, certVars>>

\* a step that failed: the error is kept, its message printed, exit status 1
Fail(message) ==
    /\ err' = message
    /\ Exit(1, << <<message>> >>)

\* the disk d with the file at path holding content
WriteFile(d, path, content) ==
    [q \in DOMAIN d \cup {path} |-> IF q = path THEN content ELSE d[q]]

\* the identities of the keys rsa.GenerateKey may return
KeyIds == {1, 2}

\* the serial numbers rand.Int may return
Serials == {0, 1}

\* 470-476
GenerateKey ==
    /\ pc = "keygen"
    /\ \/ /\ \E id \in KeyIds :
                privateKey' = [id |-> id, bits |-> keySize, E |-> 65537, valid |-> TRUE]
          /\ pc' = "template"
          /\ out' = out \o << <<"Generating RSA private key", keySize>> >>
          /\ UNCHANGED <<exitCode, err>>
       \/ /\ Fail("Error generating private key")
          /\ UNCHANGED privateKey
    /\ UNCHANGED <<envVars, inputVars, subj, template, csrBytes, pathVars, certVars>>

\* 500-505: the value of the SAN extension, a SEQUENCE of [2] raw values
encodeSANs(names) ==
    MarshalRawValues([i \in 1..Len(names) |->
        [Class |-> 2, Tag |-> 2, IsCompound |-> FALSE, Bytes |-> names[i]]])

\* 479-486: every field but the common name is a one-element slice
SubjectOf(cn, o, ou, c, st, l) ==
    [CommonName |-> cn, Organization |-> <<o>>, OrganizationalUnit |-> <<ou>>,
     Country |-> <<c>>, Province |-> <<st>>, Locality |-> <<l>>]

\* 478-514
BuildTemplate ==
    /\ pc = "template"
    /\ LET s == SubjectOf(commonName, organization, organizationalUnit, country,
                          state, locality)
       IN  /\ subj' = s
           /\ \/ /\ template' =
                       [Subject |-> s, SignatureAlgorithm |-> "SHA256-RSA",
                        ExtraExtensions |->
                            IF Len(sans) > 0
                            THEN << [Id |-> oidSubjectAltName, Value |-> encodeSANs(sans)] >>
                            ELSE <<>>]
                 /\ pc' = "csr"
                 /\ out' = out \o (IF Len(sans) > 0
                                   THEN << <<"Added Subject Alternative Names to the CSR", Len(sans)>> >>
                                   ELSE <<>>)
                 /\ UNCHANGED <<exitCode, err>>
              \/ /\ Len(sans) > 0
                 /\ template' = [Subject |-> s, SignatureAlgorithm |-> "SHA256-RSA",
                                 ExtraExtensions |-> <<>>]
                 /\ Fail("Error encoding SANs")
    /\ UNCHANGED <<envVars, inputVars, privateKey, csrBytes, pathVars, certVars>>

\* 516-521
\* 516-521 with the error of x509.CreateCertificateRequest ignored
CreateCSRIgnoringError ==
    /\ pc = "csr"
    /\ \/ csrBytes' = CreateCertificateRequest(template, privateKey)
       \/ UNCHANGED csrBytes
    /\ pc' = "mkdir"
    /\ UNCHANGED <<exitCode, err, out>>
    /\ UNCHANGED <<envVars, inputVars, privateKey, subj, template, pathVars, certVars>>

\* 516-521
CreateCSR ==
    /\ pc = "csr"
    /\ \/ /\ csrBytes' = CreateCertificateRequest(template, privateKey)
          /\ pc' = "mkdir"
          /\ UNCHANGED <<exitCode, err, out>>
       \/ /\ Fail("Error creating CSR")
          /\ UNCHANGED csrBytes
    /\ UNCHANGED <<envVars, inputVars, privateKey, subj, template, pathVars, certVars>>

\* 523-542
MakeOutputDir ==
    /\ pc = "mkdir"
    /\ \/ /\ dirs' = IF args.o # <<>> THEN dirs \cup {args.o} ELSE dirs
          /\ keyPath' = OutputPath(args.o, filePrefix, <<46, 107, 101, 121>>)
          /\ csrPath' = OutputPath(args.o, filePrefix, <<46, 99, 115, 114>>)
          /\ crtPath' = OutputPath(args.o, filePrefix, <<46, 99, 114, 116>>)
          /\ pc' = "keyfile"
          /\ UNCHANGED <<exitCode, err, out>>
       \/ /\ args.o # <<>>
          /\ Fail("Error creating output directory")
          /\ UNCHANGED <<dirs, pathVars>>
    /\ UNCHANGED <<args, stdin, fs, inputVars, builtVars, certVars>>

\* os.Create that removes the files written so far when it fails
CreateFileOrCleanUp(path, next, message) ==
    \/ /\ fs' = WriteFile(fs, path, <<>>)
       /\ pc' = next
       /\ UNCHANGED <<exitCode, err, out>>
    \/ /\ Fail(message)
       /\ fs' = [q \in DOMAIN fs \ {keyPath, csrPath, crtPath} |-> fs[q]]

\* os.Create(path) then pem.Encode of one block: the four steps of a file.
\* A failed os.Create leaves the disk as it was; a failed pem.Encode leaves
\* the created file with what was written of the block, which is no block.
CreateFile(path, next, message) ==
    \/ /\ fs' = WriteFile(fs, path, <<>>)
       /\ pc' = next
       /\ UNCHANGED <<exitCode, err, out>>
    \/ /\ Fail(message)
       /\ UNCHANGED fs

EncodeFile(path, block, next, message, lines) ==
    \/ /\ fs' = WriteFile(fs, path, <<block>>)
       /\ IF next = "exit"
          THEN Exit(0, lines)
          ELSE (pc' = next /\ out' = out \o lines /\ UNCHANGED exitCode)
       /\ UNCHANGED err
    \/ /\ \E partial \in {<<>>, <<Garbage>>} : fs' = WriteFile(fs, path, partial)
       /\ Fail(message)

\* 544-550
CreateKeyFile ==
    /\ pc = "keyfile"
    /\ CreateFile(keyPath, "keypem", "Error creating key file")
    /\ UNCHANGED <<args, stdin, dirs, genVars>>

\* 552-560
EncodeKey ==
    /\ pc = "keypem"
    /\ EncodeFile(keyPath, PemBlock("RSA PRIVATE KEY", MarshalPKCS1PrivateKey(privateKey)),
                  "csrfile", "Error encoding private key", <<>>)
    /\ UNCHANGED <<args, stdin, dirs, genVars>>

\* 562-568
CreateCSRFile ==
    /\ pc = "csrfile"
    /\ CreateFile(csrPath, "csrpem", "Error creating CSR file")
    /\ UNCHANGED <<args, stdin, dirs, genVars>>

\* 570-582
EncodeCSR ==
    /\ pc = "csrpem"
    /\ EncodeFile(csrPath, PemBlock("CERTIFICATE REQUEST", csrBytes),
                  "selfsign", "Error encoding CSR",
                  << <<"Success!">>, <<"Private key saved to: ", keyPath>>,
                     <<"CSR saved to: ", csrPath>> >>)
    /\ UNCHANGED <<args, stdin, dirs, genVars>>

\* 646-651, the run without a certificate
SkipCertificate ==
    /\ pc = "selfsign"
    /\ ~createSelfsigned
    /\ Exit(0, << <<"You can now submit the CSR file to your Certificate Authority.">>,
                  <<"Keep your private key file secure and do not share it with anyone.">> >>)
    /\ UNCHANGED <<envVars, err, genVars>>

\* 585-595
GenerateSerial ==
    /\ pc = "selfsign"
    /\ createSelfsigned
    /\ notBefore' = Now
    /\ notAfter' = TimeAdd(Now, DurationOfDays(validDays))
    /\ \/ /\ \E n \in Serials : serialNumber' = n
          /\ pc' = "cert"
          /\ UNCHANGED <<exitCode, err, out>>
       \/ /\ Fail("Failed to generate serial number")
          /\ UNCHANGED serialNumber
    /\ UNCHANGED <<envVars, inputVars, builtVars, pathVars, certTemplate, derBytes>>

\* contains with the comparison lost: nothing is ever found
containsNothing(slice, str) == FALSE

\* contains (30-37)
contains(slice, str) == \E i \in 1..Len(slice) : slice[i] = str

\* 607-615: the DNSNames of the certificate template
CertDNSNames(names, cn) ==
    LET dns == IF Len(names) > 0 THEN names ELSE <<>>
    IN  IF ~contains(dns, cn) /\ ContainsDot(cn) THEN Append(dns, cn) ELSE dns

\* 597-623
CreateCert ==
    /\ pc = "cert"
    /\ LET t == [SerialNumber |-> serialNumber, Subject |-> subj,
                 NotBefore |-> notBefore, NotAfter |-> notAfter,
                 KeyUsage |-> 4 + 1, ExtKeyUsage |-> <<1>>,
                 BasicConstraintsValid |-> TRUE,
                 DNSNames |-> CertDNSNames(sans, commonName)]
       IN  /\ certTemplate' = t
           /\ \/ /\ derBytes' = CreateCertificate(t, t, privateKey)
                 /\ pc' = "crtfile"
                 /\ UNCHANGED <<exitCode, err, out>>
              \/ /\ Fail("Failed to create certificate")
                 /\ UNCHANGED derBytes
    /\ UNCHANGED <<envVars, inputVars, builtVars, pathVars, notBefore, notAfter, serialNumber>>

\* 625-631
CreateCertFile ==
    /\ pc = "crtfile"
    /\ CreateFile(crtPath, "crtpem", "Failed to create certificate file")
    /\ UNCHANGED <<args, stdin, dirs, genVars>>

\* 633-651
EncodeCert ==
    /\ pc = "crtpem"
    /\ EncodeFile(crtPath, PemBlock("CERTIFICATE", derBytes),
                  "exit", "Failed to encode certificate",
                  << <<"Self-signed certificate saved to: ", crtPath>>,
                     <<"Certificate is valid for days", validDays>>,
                     <<"Keep your private key file secure and do not share it with anyone.">> >>)
    /\ UNCHANGED <<args, stdin, dirs, genVars>>

(***************************************************************************)
(* The files on the disk before the run, for decode mode.                  *)
(***************************************************************************)
SampleName ==
    [EmptyName EXCEPT !.CommonName = <<97, 46, 98>>, !.Organization = << <<88>> >>,
                      !.Country = << <<85, 83>> >>]
OtherName ==
    [EmptyName EXCEPT !.CommonName = <<99, 97>>, !.Organization = << <<89>> >>,
                      !.Country = << <<85, 83>> >>]
SampleKey  == [id |-> 9, bits |-> 2048, E |-> 65537, valid |-> TRUE]

SampleCSR(exts, sigOK) ==
    [der |-> "csr", Subject |-> ToRDNSequence(SampleName), Extensions |-> exts,
     SignatureAlgorithm |-> "SHA256-RSA", PublicKey |-> 9, SigOK |-> sigOK]

SampleCert(issuer, exts) ==
    [der |-> "cert", Subject |-> ToRDNSequence(SampleName),
     Issuer |-> ToRDNSequence(issuer), SerialNumber |-> 7,
     NotBefore |-> Now, NotAfter |-> TimeAdd(Now, DurationOfDays(90)),
     KeyUsage |-> 1 + 32 + 64, ExtKeyUsage |-> <<1, 2, 5>>, Extensions |-> exts,
     SignatureAlgorithm |-> "SHA256-RSA", PublicKey |-> 9]

SANExt(value) == << [Id |-> oidSubjectAltName, Value |-> value] >>

\* SEQUENCE { [2] "a.b", [2] "c" }, as RFC 5280 has it
GoodSAN == marshalSANs(<< <<97, 46, 98>>, <<99>> >>)
\* SEQUENCE { SEQUENCE { [2] "a.b" } }
NestedSAN ==
    MarshalRawValues(<< [Class |-> 0, Tag |-> 16, IsCompound |-> TRUE,
                         Bytes |-> MarshalAll(<< [Class |-> 2, Tag |-> 2,
                                   IsCompound |-> FALSE, Bytes |-> <<97, 46, 98>>] >>)] >>)
\* a SEQUENCE whose length runs past the end of the value
TruncatedSAN == <<48, 5, 130, 1, 97>>
\* an OCTET STRING where the SEQUENCE should be
NotSequenceSAN == <<4, 1, 97>>
\* a well-formed SEQUENCE with a byte after it
TrailingSAN == GoodSAN \o <<0>>
\* a SEQUENCE whose second element is cut short
BrokenEntrySAN == <<48, 5, 130, 1, 97, 130, 9>>

MalformedSANs == {TruncatedSAN, NotSequenceSAN, TrailingSAN, BrokenEntrySAN, <<>>}

CertBlock == PemBlock("CERTIFICATE", SampleCert(SampleName, SANExt(GoodSAN)))
CSRBlock  == PemBlock("CERTIFICATE REQUEST", SampleCSR(<<>>, TRUE))
KeyBlock  == PemBlock("RSA PRIVATE KEY", MarshalPKCS1PrivateKey(SampleKey))
PKCS8Block(alg) == PemBlock("PRIVATE KEY", [der |-> "pkcs8", alg |-> alg, key |-> SampleKey])
UnknownBlock == PemBlock("PUBLIC KEY", NoDER)

FixtureFiles ==
    << <<>>,
       <<Garbage>>,
       <<CertBlock>>,
       <<CertBlock, KeyBlock>>,
       <<CertBlock, UnknownBlock>>,
       <<CertBlock, Garbage>>,
       <<Garbage, CSRBlock>>,
       <<CSRBlock>>,
       <<CSRBlock, PemBlock("CERTIFICATE", NoDER)>>,
       <<KeyBlock>>,
       <<KeyBlock, Garbage, CertBlock>>,
       <<PKCS8Block("RSA")>>,
       <<PKCS8Block("EC")>>,
       <<PKCS8Block("RSA"), PKCS8Block("EC")>>,
       <<UnknownBlock>>,
       <<UnknownBlock, CertBlock>>,
       <<PemBlock("CERTIFICATE", NoDER)>>,
       <<PemBlock("CERTIFICATE", SampleCSR(<<>>, TRUE))>>,
       <<PemBlock("CERTIFICATE REQUEST", NoDER)>>,
       <<PemBlock("RSA PRIVATE KEY", NoDER)>>,
       <<PemBlock("PRIVATE KEY", MarshalPKCS1PrivateKey(SampleKey))>>,
       <<PemBlock("CERTIFICATE REQUEST", SampleCSR(SANExt(GoodSAN), TRUE))>>,
       <<PemBlock("CERTIFICATE REQUEST", SampleCSR(SANExt(NestedSAN), TRUE))>>,
       <<PemBlock("CERTIFICATE REQUEST", SampleCSR(SANExt(TruncatedSAN), TRUE))>>,
       <<PemBlock("CERTIFICATE REQUEST", SampleCSR(SANExt(NotSequenceSAN), TRUE))>>,
       <<PemBlock("CERTIFICATE REQUEST", SampleCSR(SANExt(TrailingSAN), TRUE))>>,
       <<PemBlock("CERTIFICATE REQUEST", SampleCSR(SANExt(BrokenEntrySAN), TRUE))>>,
       <<PemBlock("CERTIFICATE REQUEST", SampleCSR(SANExt(<<>>), TRUE))>>,
       <<PemBlock("CERTIFICATE REQUEST", SampleCSR(<<>>, FALSE))>>,
       <<PemBlock("CERTIFICATE", SampleCert(SampleName, <<>>))>>,
       <<PemBlock("CERTIFICATE", SampleCert(SampleName, SANExt(TruncatedSAN)))>>,
       <<PemBlock("CERTIFICATE", SampleCert(SampleName, SANExt(NotSequenceSAN)))>>,
       <<PemBlock("CERTIFICATE", SampleCert(OtherName, SANExt(GoodSAN)))>>,
       <<PemBlock("RSA PRIVATE KEY",
                  MarshalPKCS1PrivateKey([SampleKey EXCEPT !.valid = FALSE]))>> >>

\* file i is in/<i> in decimal
FixtureDir == <<105, 110>>
FixturePath(i) == Path(FixtureDir, <<48 + (i \div 10), 48 + (i % 10)>>)
MissingPath == Path(FixtureDir, <<110, 111, 110, 101>>)

InitialDisk ==
    [q \in {FixturePath(i) : i \in 1..Len(FixtureFiles)} |->
        FixtureFiles[CHOOSE i \in 1..Len(FixtureFiles) : FixturePath(i) = q]]

(***************************************************************************)
(* The runs checked.  A scenario is a command line and the answers the     *)
(* operator types; the input of the run is the script of those answers in  *)
(* the order main asks for them.  Each family varies some answers over a   *)
(* set and leaves the others at DefaultScenario.                           *)
(***************************************************************************)
SeqsUpTo(S, n) == UNION {[1..k -> S] : k \in 0..n}

DefaultScenario ==
    [bad |-> FALSE, help |-> FALSE, version |-> FALSE, s |-> FALSE, days |-> 365,
     o |-> <<>>, decode |-> NoPath,
     cn |-> <<97, 46, 98>>, org |-> <<88>>, ou |-> <<88>>, c |-> <<88>>,
     st |-> <<88>>, l |-> <<88>>, email |-> <<>>, ks |-> <<>>, prefix |-> <<>>,
     self |-> <<110>>, daysAns |-> <<>>, sanAns |-> <<110>>, sans |-> <<>>,
     eof |-> FALSE]

\* "", "X"
FieldAnswers == {<<>>, <<88>>}

\* "", "a", "a.b"
CommonNames == {<<>>, <<97>>, <<97, 46, 98>>}

\* "", "2048", "3072", "4096", "1024", "0", "abc", "4096x", " 3072 "
KeySizeAnswers ==
    {<<>>, <<50, 48, 52, 56>>, <<51, 48, 55, 50>>, <<52, 48, 57, 54>>, <<49, 48, 50, 52>>,
     <<48>>, <<97, 98, 99>>, <<52, 48, 57, 54, 120>>, <<32, 51, 48, 55, 50, 32>>}

\* the values of -days
DaysFlags == {0 - 1, 0, 365, 730, 106751, 106752}

\* "y", "YES", " Yes ", "n", "", "yep"
YesNoAnswers ==
    {<<121>>, <<89, 69, 83>>, <<32, 89, 101, 115, 32>>, <<110>>, <<>>, <<121, 101, 112>>}

\* "", "730", "0", "-5", "abc", "106752", " 30 "
DaysAnswers ==
    {<<>>, <<55, 51, 48>>, <<48>>, <<45, 53>>, <<97, 98, 99>>,
     <<49, 48, 54, 55, 53, 50>>, <<32, 51, 48, 32>>}

\* "a.b", "c", " d.e "
SanNames == {<<97, 46, 98>>, <<99>>, <<32, 100, 46, 101, 32>>}

\* "", "a.b", "c", "x.y"
SanCommonNames == {<<>>, <<97, 46, 98>>, <<99>>, <<120, 46, 121>>}

\* "", "web", " web "
PrefixAnswers == {<<>>, <<119, 101, 98>>, <<32, 119, 101, 98, 32>>}

SubjectScenarios ==
    {[DefaultScenario EXCEPT !.s = s, !.cn = cn, !.org = o, !.ou = ou, !.c = c,
                             !.st = st, !.l = l] :
        s \in BOOLEAN, cn \in CommonNames, o \in FieldAnswers, ou \in FieldAnswers,
        c \in FieldAnswers, st \in FieldAnswers, l \in FieldAnswers}

KeySizeScenarios == {[DefaultScenario EXCEPT !.ks = ks] : ks \in KeySizeAnswers}

ValidityScenarios ==
    {[DefaultScenario EXCEPT !.s = s, !.days = d, !.self = a, !.daysAns = da] :
        s \in BOOLEAN, d \in DaysFlags, a \in YesNoAnswers, da \in DaysAnswers}

SanScenarios ==
    {[DefaultScenario EXCEPT !.s = s, !.cn = cn, !.sanAns = a, !.sans = ns, !.eof = e] :
        s \in BOOLEAN, cn \in SanCommonNames, a \in {<<121>>, <<32, 89, 69, 83, 32>>, <<110>>},
        ns \in SeqsUpTo(SanNames, MaxSans), e \in BOOLEAN}

OutputScenarios ==
    {[DefaultScenario EXCEPT !.s = s, !.o = o, !.prefix = p] :
        s \in BOOLEAN, o \in {<<>>, <<111, 117, 116>>}, p \in PrefixAnswers}

ModeScenarios ==
    {[DefaultScenario EXCEPT !.bad = b, !.help = h, !.version = v, !.decode = d] :
        b \in BOOLEAN, h \in BOOLEAN, v \in BOOLEAN, d \in {NoPath, FixturePath(3)}}

DecodeScenarios ==
    {[DefaultScenario EXCEPT !.decode = d, !.s = s, !.o = o] :
        d \in {FixturePath(i) : i \in 1..Len(FixtureFiles)} \cup {MissingPath},
        s \in BOOLEAN, o \in {<<>>, <<111, 117, 116>>}}

Scenarios ==
    SubjectScenarios \cup KeySizeScenarios \cup ValidityScenarios \cup SanScenarios
        \cup OutputScenarios \cup ModeScenarios \cup DecodeScenarios

ArgsOf(r) ==
    [bad |-> r.bad, help |-> r.help, version |-> r.version, s |-> r.s, days |-> r.days,
     o |-> r.o, decode |-> r.decode]

\* the lines typed: the answers to the prompts main reaches, in its order
ScriptOf(r) ==
    <<r.cn, r.org, r.ou, r.c, r.st, r.l, r.email, r.ks, r.prefix>>
    \o (IF r.s THEN <<>>
        ELSE <<r.self>>
             \o (IF IsYes(TrimSpace(ToLower(r.self))) THEN <<r.daysAns>> ELSE <<>>))
    \o <<r.sanAns>>
    \o (IF IsYes(TrimSpace(ToLower(r.sanAns)))
        THEN r.sans \o (IF r.eof THEN <<>> ELSE << <<>> >>)
        ELSE <<>>)

StdinOf(r) == IF r.eof /\ ~IsYes(TrimSpace(ToLower(r.sanAns))) THEN <<>> ELSE ScriptOf(r)

Init ==
    /\ \E r \in Scenarios : args = ArgsOf(r) /\ stdin = StdinOf(r)
    /\ fs = InitialDisk
    /\ dirs = {<<>>, FixtureDir}
    /\ pc = "flags"
    /\ exitCode = 0
    /\ err = ""
    /\ out = <<>>
    /\ commonName = <<>> /\ organization = <<>> /\ organizationalUnit = <<>>
    /\ country = <<>> /\ state = <<>> /\ locality = <<>> /\ emailAddress = <<>>
    /\ keySizeStr = <<>> /\ keySize = 0 /\ filePrefix = <<>>
    /\ selfSigned = <<>> /\ createSelfsigned = FALSE
    /\ validDaysStr = <<>> /\ validDays = 0
    /\ addSANs = <<>> /\ sans = <<>>
    /\ privateKey = NoKey /\ subj = EmptyName /\ template = NoTemplate
    /\ csrBytes = NoDER
    /\ keyPath = NoPath /\ csrPath = NoPath /\ crtPath = NoPath
    /\ notBefore = <<0, 0>> /\ notAfter = <<0, 0>> /\ serialNumber = 0
    /\ certTemplate = NoCertTemplate /\ derBytes = NoDER

\* After a generating run has ended, the operator runs certforge --decode on
\* one of the files that run named.  The generating run's variables keep
\* their values: they record what was entered and built.
DecodeOutput ==
    /\ pc = "exit"
    /\ keyPath # NoPath
    /\ \E q \in {keyPath, csrPath, crtPath} :
          args' = [bad |-> FALSE, help |-> FALSE, version |-> FALSE, s |-> FALSE,
                   days |-> 365, o |-> <<>>, decode |-> q]
    /\ stdin' = <<>>
    /\ pc' = "flags"
    /\ exitCode' = 0
    /\ err' = ""
    /\ out' = <<>>
    /\ UNCHANGED <<fs, dirs, genVars>>

Next ==
    \/ FlagParse
    \/ ShowHelp
    \/ ShowVersion
    \/ DecodeMode
    \/ StartGeneration
    \/ ReadSubject
    \/ ReadKeySize
    \/ ReadPrefix
    \/ AskSelfSigned
    \/ AskValidity
    \/ AskSANs
    \/ ReadSAN
    \/ GenerateKey
    \/ BuildTemplate
    \/ CreateCSR
    \/ MakeOutputDir
    \/ CreateKeyFile
    \/ EncodeKey
    \/ CreateCSRFile
    \/ EncodeCSR
    \/ SkipCertificate
    \/ GenerateSerial
    \/ CreateCert
    \/ CreateCertFile
    \/ EncodeCert
    \/ DecodeOutput

Spec == Init /\ [][Next]_vars

\* main runs on: a turn of the SAN loop that can be taken is taken
LiveSpec == Spec /\ WF_vars(ReadSAN)

(***************************************************************************)
(* Properties.                                                             *)
(***************************************************************************)
\* the run is a generating run / a decoding run
GenerationRun == ~args.bad /\ ~args.help /\ ~args.version /\ args.decode = NoPath
DecodeRun     == ~args.bad /\ ~args.help /\ ~args.version /\ args.decode # NoPath

\* the file at path q holds exactly the PEM block of the given type and bytes
Holds(q, type, bytes) == q \in DOMAIN fs /\ fs[q] = <<PemBlock(type, bytes)>>

\* the values of the printed lines that start with the text label
RECURSIVE ValuesOf(_, _)
ValuesOf(lines, label) ==
    IF lines = <<>> THEN <<>>
    ELSE (IF Head(lines)[1] = label THEN <<Head(lines)[2]>> ELSE <<>>)
             \o ValuesOf(Tail(lines), label)

\* a decoding run of the request file of the preceding generating run has ended
DecodedOwnCSR ==
    /\ pc = "exit" /\ DecodeRun /\ args.decode = csrPath
    /\ csrBytes.der = "csr"
    /\ Holds(csrPath, "CERTIFICATE REQUEST", csrBytes)

\* C1: decoding the request file a generating run wrote for a non-empty SAN
\* list prints exactly the names entered, in the order entered, as DNS lines.
C1_SANRoundTrip ==
    (DecodedOwnCSR /\ Len(sans) > 0) => ValuesOf(out, "  DNS: ") = sans

\* the expected DNS names of the certificate for a SAN list and a common name
ExpectedDNSNames(names, cn) ==
    IF (\E i \in 1..Len(cn) : cn[i] = 46) /\ (\A i \in 1..Len(names) : names[i] # cn)
    THEN names \o <<cn>>
    ELSE names

\* C2: the DNS names of a created certificate are the SAN list entered, in
\* order, followed by the common name iff that contains a '.' and is not
\* already in the list.
C2_CertificateDNSNames ==
    derBytes.der = "cert" =>
        /\ certTemplate.DNSNames = ExpectedDNSNames(sans, commonName)
        /\ ParseCertificate(derBytes).DNSNames = ExpectedDNSNames(sans, commonName)

\* C2's case: a certificate whose common name has a dot and is in the list
C2_Witness ==
    /\ derBytes.der = "cert"
    /\ Len(sans) = 2
    /\ \E i \in 1..Len(commonName) : commonName[i] = 46
    /\ \E i \in 1..Len(sans) : sans[i] = commonName
    /\ ParseCertificate(derBytes).DNSNames = sans

\* the answer is a plain decimal numeral
IsNumeral(s) == s # <<>> /\ \A i \in 1..Len(s) : s[i] >= 48 /\ s[i] <= 57

\* "2048", "3072", "4096"
AllowedSizeAnswers ==
    {<<50, 48, 52, 56>>, <<51, 48, 55, 50>>, <<52, 48, 57, 54>>}

SizeOfAnswer(s) ==
    CASE s = <<50, 48, 52, 56>> -> 2048
      [] s = <<51, 48, 55, 50>> -> 3072
      [] s = <<52, 48, 57, 54>> -> 4096

C4_ValidityWindow ==
    derBytes.der = "cert" =>
        TimeSub(derBytes.NotAfter, derBytes.NotBefore) = DaysTimes24h(validDays)

\* C5 as stated: every run ends with exit code 0 or 1, and with 1 exactly
\* when a generation step or decodeFile returned an error.
C5_ExitZeroOrOne ==
    pc = "exit" => (exitCode \in {0, 1} /\ (exitCode = 1 <=> err # ""))

\* C5, amended: a run whose command line the flag package rejects ends with
\* exit code 2 before any step; every other run ends with 0 or 1, with 1
\* exactly when a generation step or decodeFile returned an error, and a
\* help or version run ends with 0.
C5_ExitCode ==
    pc = "exit" =>
        IF args.bad THEN exitCode = 2 /\ err = ""
        ELSE /\ exitCode \in {0, 1}
             /\ exitCode = 1 <=> err # ""
             /\ (args.help \/ args.version) => exitCode = 0
             /\ (DecodeRun /\ exitCode = 0) => ValuesOf(out, "Error: ") = <<>>
             /\ (DecodeRun /\ exitCode = 1) => ValuesOf(out, "Error: ") # <<>>

\* C5's case: a decoding run that failed and a generating run that failed
\* late both end with exit code 1
C5_Witness ==
    /\ pc = "exit" /\ exitCode = 1
    /\ DecodeRun
    /\ err = "Unsupported PEM block type"

\* a self-signed certificate was requested: -s, or "y" or "yes" at the prompt
Requested == args.s \/ selfSigned = <<121>> \/ selfSigned = <<121, 101, 115>>

\* C6: a generating run that exits 0 has written the key and the request,
\* and the certificate iff one was requested; a generating run for which
\* none was requested never creates the certificate file.
C6_OutputFiles ==
    /\ (pc = "exit" /\ GenerationRun /\ exitCode = 0) =>
          /\ Holds(keyPath, "RSA PRIVATE KEY", MarshalPKCS1PrivateKey(privateKey))
          /\ Holds(csrPath, "CERTIFICATE REQUEST", csrBytes)
          /\ csrBytes.der = "csr"
          /\ Requested => (derBytes.der = "cert" /\ Holds(crtPath, "CERTIFICATE", derBytes))
          /\ ~Requested => crtPath \notin DOMAIN fs
    /\ (GenerationRun /\ ~Requested /\ crtPath # NoPath) => crtPath \notin DOMAIN fs

\* C6's case: "YES" at the prompt, exit 0, the three files written
C6_Witness ==
    /\ pc = "exit" /\ GenerationRun /\ exitCode = 0
    /\ ~args.s /\ selfSigned = <<121, 101, 115>>
    /\ Holds(crtPath, "CERTIFICATE", derBytes)
    /\ Holds(keyPath, "RSA PRIVATE KEY", MarshalPKCS1PrivateKey(privateKey))

\* the content of the file a decoding run was given, <<>> if there is none
DecodedFile == IF args.decode \in DOMAIN fs THEN fs[args.decode] ELSE <<>>

HasBlock(file) == \E i \in 1..Len(file) : file[i].pem

\* the first PEM block of a file that has one
FirstBlockOf(file) ==
    file[CHOOSE i \in 1..Len(file) : file[i].pem /\ \A j \in 1..(i - 1) : ~file[j].pem]

\* the DER structure decodeFile parses for a block type, "none" if it has no case
KindOf(type) ==
    CASE type = "CERTIFICATE" -> "cert"
      [] type = "CERTIFICATE REQUEST" -> "csr"
      [] type = "RSA PRIVATE KEY" -> "pkcs1"
      [] type = "PRIVATE KEY" -> "pkcs8"
      [] OTHER -> "none"

\* the first line of the summary printed for a block type
HeaderOf(type) ==
    CASE type = "CERTIFICATE" -> "=== Certificate Information ==="
      [] type = "CERTIFICATE REQUEST" -> "=== Certificate Signing Request Information ==="
      [] OTHER -> "=== RSA Private Key Information ==="

\* nothing but the error line was printed
NoSummary == Len(out) = 1 /\ out[1][1] = "Error: "

\* the cases C7 lists as errors, for the first block b of the file
DecodeErrorCase(b) ==
    \/ args.decode \notin DOMAIN fs
    \/ ~HasBlock(DecodedFile)
    \/ KindOf(b.Type) = "none"
    \/ b.Bytes.der # KindOf(b.Type)
    \/ (b.Bytes.der = "pkcs8" /\ b.Bytes.alg # "RSA")

\* the block's structure carries a subjectAltName extension that is malformed
HasMalformedSAN(b) ==
    /\ b.Bytes.der \in {"cert", "csr"}
    /\ \E i \in 1..Len(b.Bytes.Extensions) :
          /\ b.Bytes.Extensions[i].Id = oidSubjectAltName
          /\ b.Bytes.Extensions[i].Value \in MalformedSANs

DecodeDispatch(b) ==
    /\ DecodeErrorCase(b) => (exitCode = 1 /\ NoSummary)
    /\ exitCode = 0 => (~DecodeErrorCase(b) /\ out[1][1] = HeaderOf(b.Type))
    /\ exitCode # 0 => (exitCode = 1 /\ NoSummary)
    /\ (~DecodeErrorCase(b) /\ ~HasMalformedSAN(b)) => exitCode = 0

SameAsAlone(r) == r.err = "" => (exitCode = 0 /\ out = r.out)

\* C8: when the first item of the file is a PEM block that decodes, the run
\* prints exactly the summary of that block and exits 0, whatever follows it.
C8_FirstBlockOnly ==
    (pc = "exit" /\ DecodeRun /\ DecodedFile # <<>> /\ DecodedFile[1].pem) =>
        SameAsAlone(decodeBlock(DecodedFile[1]))

\* C8's case: a certificate followed by a second block, decoded with exit 0
C8_Witness ==
    /\ pc = "exit" /\ DecodeRun /\ Len(DecodedFile) > 1
    /\ DecodedFile[1].pem /\ DecodedFile[2].pem
    /\ DecodedFile[1].Type = "CERTIFICATE" /\ DecodedFile[2].Type # "CERTIFICATE"
    /\ exitCode = 0
    /\ out[1][1] = "=== Certificate Information ==="

\* a printed name has a component with an empty value: "=" at its end or
\* before a comma
HasEmptyComponent(str) ==
    /\ str # <<>>
    /\ \/ str[Len(str)] = 61
       \/ \E i \in 1..(Len(str) - 1) : str[i] = 61 /\ str[i + 1] = 44

NoEmptyComponent(names) == \A i \in 1..Len(names) : ~HasEmptyComponent(names[i])

\* C9: no subject or issuer a decoding run prints has a component with an
\* empty value, also for a request or certificate generated with fields left
\* blank.
C9_NoEmptyComponent ==
    (pc = "exit" /\ DecodeRun) =>
        /\ NoEmptyComponent(ValuesOf(out, "Subject: "))
        /\ NoEmptyComponent(ValuesOf(out, "Issuer: "))

\* b is a request or certificate without extensions, or with a malformed
\* subjectAltName extension
SANAbsentOrMalformed(b) ==
    /\ b.Bytes.der \in {"cert", "csr"}
    /\ b.Bytes.der = KindOf(b.Type)
    /\ (b.Bytes.Extensions = <<>> \/ HasMalformedSAN(b))

\* the summary of b was printed without DNS names and the run exited 0
SummaryWithoutSANs(b) ==
    exitCode = 0 /\ out[1][1] = HeaderOf(b.Type) /\ ValuesOf(out, "  DNS: ") = <<>>

\* C10: decoding a request or certificate whose SAN extension is absent or
\* malformed prints the summary with no SAN names and exits 0.
C10_SANTolerated ==
    (pc = "exit" /\ DecodeRun /\ HasBlock(DecodedFile)
        /\ SANAbsentOrMalformed(FirstBlockOf(DecodedFile)))
        => SummaryWithoutSANs(FirstBlockOf(DecodedFile))

\* the file decoded holds, as its first PEM block, a request that parses
DecodedRequest ==
    /\ pc = "exit" /\ DecodeRun /\ HasBlock(DecodedFile)
    /\ FirstBlockOf(DecodedFile).Type = "CERTIFICATE REQUEST"
    /\ FirstBlockOf(DecodedFile).Bytes.der = "csr"
    /\ ~HasMalformedSAN(FirstBlockOf(DecodedFile))

\* the summary of request csr was printed, with its signature's validity
SignatureReported(csr) ==
    /\ exitCode = 0 /\ err = ""
    /\ out[1][1] = "=== Certificate Signing Request Information ==="
    /\ Len(ValuesOf(out, "Subject: ")) = 1
    /\ ValuesOf(out, "Signature Algorithm: ") = <<csr.SignatureAlgorithm>>
    /\ ValuesOf(out, "Signature Valid: ") = <<csr.SigOK>>
    /\ ValuesOf(out, "Error: ") = <<>>

\* C11: decoding a request prints "Signature Valid: true" exactly when its
\* signature verifies and "Signature Valid: false" otherwise, in both cases
\* with the rest of the summary and exit code 0, never as a decode error.
C11_SignatureValidity ==
    DecodedRequest => SignatureReported(FirstBlockOf(DecodedFile).Bytes)

\* C11's case: a request whose signature does not verify was summarised
C11_Witness ==
    /\ DecodedRequest
    /\ ~FirstBlockOf(DecodedFile).Bytes.SigOK
    /\ ValuesOf(out, "Signature Valid: ") = <<FALSE>>
    /\ exitCode = 0

\* the file decoded holds, as its first PEM block, a certificate that parses
DecodedCertificate ==
    /\ pc = "exit" /\ DecodeRun /\ HasBlock(DecodedFile)
    /\ FirstBlockOf(DecodedFile).Type = "CERTIFICATE"
    /\ FirstBlockOf(DecodedFile).Bytes.der = "cert"
    /\ ~HasMalformedSAN(FirstBlockOf(DecodedFile))

\* the flag printed for certificate c is the equality of the two rendered names
SelfSignedFlag(c) ==
    ValuesOf(out, "Self-signed: ") = <<NameString(c.Subject) = NameString(c.Issuer)>>

\* C12: decoding the .crt file a generating run wrote prints
\* "Self-signed: true"; for every certificate decoded the flag is true
\* exactly when subject and issuer render to equal strings.
C12_SelfSignedFlag ==
    /\ (DecodedCertificate /\ args.decode = crtPath /\ Holds(crtPath, "CERTIFICATE", derBytes))
          => ValuesOf(out, "Self-signed: ") = <<TRUE>>
    /\ DecodedCertificate => SelfSignedFlag(ParseCertificate(FirstBlockOf(DecodedFile).Bytes))
    /\ (DecodedCertificate /\ ValuesOf(out, "Self-signed: ") = <<TRUE>>)
          => FirstBlockOf(DecodedFile).Bytes.Subject = FirstBlockOf(DecodedFile).Bytes.Issuer

\* C12's case: the certificate a run generated, blank fields included, was
\* decoded and reported as self-signed
C12_Witness ==
    /\ DecodedCertificate /\ args.decode = crtPath
    /\ Holds(crtPath, "CERTIFICATE", derBytes)
    /\ organization = <<>>
    /\ ValuesOf(out, "Self-signed: ") = <<TRUE>>

\* a certificate issued by another name is reported as not self-signed
C12_WitnessForeign ==
    /\ DecodedCertificate
    /\ FirstBlockOf(DecodedFile).Bytes.Subject # FirstBlockOf(DecodedFile).Bytes.Issuer
    /\ ValuesOf(out, "Self-signed: ") = <<FALSE>>

\* a generating run ended with exit code 1
StepFailed == pc = "exit" /\ GenerationRun /\ exitCode = 1

KeyFileWritten ==
    Holds(keyPath, "RSA PRIVATE KEY", MarshalPKCS1PrivateKey(privateKey))

CSRFileWritten == Holds(csrPath, "CERTIFICATE REQUEST", csrBytes)

\* the steps that come after the .csr file is written
CertificateFailures ==
    {"Failed to generate serial number", "Failed to create certificate",
     "Failed to create certificate file", "Failed to encode certificate"}

\* what is on disk when the run stopped at the step whose error is e
LeftOnDisk(e) ==
    /\ e \in {"Error generating private key", "Error encoding SANs", "Error creating CSR",
              "Error creating output directory"}
          => (keyPath = NoPath /\ csrPath = NoPath /\ crtPath = NoPath)
    /\ e = "Error creating key file" => keyPath \notin DOMAIN fs
    /\ e \in {"Error creating key file", "Error encoding private key"}
          => (csrPath \notin DOMAIN fs /\ crtPath \notin DOMAIN fs)
    /\ e \in {"Error creating CSR file", "Error encoding CSR"}
          => (KeyFileWritten /\ crtPath \notin DOMAIN fs)
    /\ e = "Error creating CSR file" => csrPath \notin DOMAIN fs
    /\ e \in CertificateFailures => (KeyFileWritten /\ CSRFileWritten)
    /\ e \in CertificateFailures \ {"Failed to encode certificate"} => crtPath \notin DOMAIN fs
    /\ e \in CertificateFailures \ {"Failed to generate serial number"} => serialNumber \in Serials
    /\ e \in {"Failed to generate serial number", "Failed to create certificate"}
          => derBytes = NoDER

\* the failing step printed its message last and removed no file
StopsWithoutCleanup ==
    StepFailed =>
        /\ err # "" /\ out[Len(out)] = <<err>>
        /\ LeftOnDisk(err)

\* a failing step leaves every file that holds a complete PEM block as it is
\* and removes no file; after the exit nothing of the run changes
FailureKeepsFiles ==
    /\ (GenerationRun /\ pc' = "exit" /\ exitCode' = 1) =>
          \A q \in DOMAIN fs :
              /\ q \in DOMAIN fs'
              /\ (fs[q] # <<>> /\ fs[q][1].pem) => fs'[q] = fs[q]
    /\ pc = "exit" => (fs' = fs /\ dirs' = dirs /\ genVars' = genVars)

\* C13: a generating run whose step fails stops there with exit code 1,
\* performs no later step and removes nothing: the files earlier steps
\* wrote completely are still on disk, unchanged.
C13_NoCleanup == []StopsWithoutCleanup /\ [][FailureKeepsFiles]_vars

\* C13's case: certificate creation failed after key and request were written
C13_Witness ==
    /\ StepFailed /\ err = "Failed to create certificate"
    /\ KeyFileWritten /\ CSRFileWritten
    /\ crtPath \notin DOMAIN fs

\* the lines only decodeFile and main's decode branch print
DecodeLines ==
    {"Error: ", "=== Certificate Information ===",
     "=== Certificate Signing Request Information ===",
     "=== RSA Private Key Information ==="}

\* a run without --decode prints nothing decodeFile prints
NoDecodeInGeneration ==
    (args.decode = NoPath /\ ~args.bad) => \A i \in 1..Len(out) : out[i][1] \notin DecodeLines

\* a step of a decoding run reads no input, touches neither disk nor
\* generation state, and leads from the flags to decodeFile to the exit
DecodeStep ==
    (DecodeRun /\ pc # "exit") =>
        /\ stdin' = stdin /\ fs' = fs /\ dirs' = dirs /\ genVars' = genVars
        /\ pc = "flags" => (pc' = "dispatch" /\ out' = out)
        /\ pc = "dispatch" =>
              /\ pc' = "exit"
              /\ err' = decodeFile(fs, args.decode).err
              /\ exitCode' = IF err' = "" THEN 0 ELSE 1
        /\ pc \in {"flags", "dispatch"}

\* C14: a run with --decode (and neither help nor version) reads no prompt
\* input, generates no key and creates or writes no file or directory,
\* whether decoding succeeds or fails; a run without --decode never calls
\* decodeFile.
C14_DecodeExclusive == []NoDecodeInGeneration /\ [][DecodeStep]_vars

\* C14's case: a successful decode with -s and -o given and answers waiting
\* on standard input, nothing read and nothing created
C14_Witness ==
    /\ pc = "exit" /\ DecodeRun /\ exitCode = 0
    /\ args.s /\ args.o # <<>> /\ args.o \notin dirs
    /\ stdin # <<>>
    /\ privateKey = NoKey /\ keyPath = NoPath
    /\ fs = InitialDisk

\* the run printed this line
Printed(line) == \E i \in 1..Len(out) : out[i] = line

\* the generating run has answered the key size prompt
KeySizeAnswered ==
    GenerationRun /\ pc \notin {"flags", "dispatch", "subject", "keysize"}

\* C15: once the key size prompt is answered, the warning "Invalid key size.
\* Using default: 2048" has been printed exactly when the answer is not blank
\* and is not one of 2048, 3072, 4096.
C15_KeySizeWarning ==
    KeySizeAnswered =>
        (Printed(<<"Invalid key size. Using default: 2048">>)
            <=> (keySizeStr # <<>> /\ keySizeStr \notin AllowedSizeAnswers))

\* the names the loop will still collect from input in: its lines, trimmed,
\* up to the first that is blank or to the end of the input
RECURSIVE Collectable(_)
Collectable(in) ==
    IF in = <<>> THEN <<>>
    ELSE IF TrimSpace(Head(in)) = <<>> THEN <<>>
    ELSE <<TrimSpace(Head(in))>> \o Collectable(Tail(in))

\* one turn of the loop takes one line: a blank line or the end of the input
\* ends the loop, any other line is appended, trimmed, so that the list and
\* what is still to be collected together never change
SanLoopStep ==
    pc = "sanloop" =>
        /\ pc' \in {"sanloop", "keygen"}
        /\ Len(stdin') = (IF stdin = <<>> THEN 0 ELSE Len(stdin) - 1)
        /\ pc' = "keygen" <=> Collectable(stdin) = <<>>
        /\ sans' \o Collectable(stdin') = sans \o Collectable(stdin)

\* the SAN question: the loop is entered with an empty list on "y" or "yes",
\* and is skipped, no further line read, on any other answer
SanQuestionStep ==
    pc = "addsans" =>
        /\ sans' = <<>> /\ sans = <<>>
        /\ stdin' = RestOf(stdin)
        /\ pc' = "sanloop" <=> addSANs' \in {<<121>>, <<121, 101, 115>>}
        /\ pc' # "sanloop" => pc' = "keygen"

\* outside the loop the list does not change; it holds no blank and no
\* untrimmed name, and is empty when the answer was not "y" or "yes"
SanListKept ==
    /\ \A i \in 1..Len(sans) : sans[i] # <<>> /\ TrimSpace(sans[i]) = sans[i]
    /\ (pc \notin {"flags", "dispatch", "subject", "keysize", "prefix", "selfsigned",
                   "validity", "addsans"}
        /\ addSANs \notin {<<121>>, <<121, 101, 115>>}) => sans = <<>>

SanStep ==
    /\ SanLoopStep
    /\ SanQuestionStep
    /\ pc \notin {"sanloop", "addsans"} => sans' = sans

\* C16: SAN collection ends at the first line that is blank once trimmed, or
\* at the end of the input; the list is the trimmed lines read before that
\* point, in order, none dropped or repeated; without "y" or "yes" the list
\* is empty and no SAN line is read; and the loop always terminates.
C16_SanCollection ==
    /\ []SanListKept
    /\ [][SanStep]_vars
    /\ (pc = "sanloop") ~> (pc = "keygen")

\* C16's case: two names collected, the second untrimmed in the input, and
\* the loop ended by the end of the input
C16_Witness ==
    /\ pc = "keygen" /\ stdin = <<>>
    /\ sans = << <<99>>, <<100, 46, 101>> >>
    /\ addSANs = <<121, 101, 115>>

\* a certificate was created after "y" or "yes" at the self-signed prompt
\* and a blank answer at the validity prompt
BlankValidityAnswer ==
    /\ derBytes.der = "cert"
    /\ selfSigned \in {<<121>>, <<121, 101, 115>>}
    /\ validDaysStr = <<>>

\* C17: a certificate chosen at the prompt, with the validity prompt
\* answered by a blank line, is issued for 365 days whatever -days is.
C17_BlankValidityIs365 ==
    BlankValidityAnswer =>
        /\ validDays = 365
        /\ derBytes.NotAfter = TimeAdd(derBytes.NotBefore, DaysTimes24h(365))

\* time t is strictly later than time u
Later(t, u) == t[1] > u[1] \/ (t[1] = u[1] /\ t[2] > u[2])

\* C18: every certificate created has a validity of at least one day, and
\* its NotAfter is strictly later than its NotBefore.
C18_ValidityAtLeastOneDay ==
    derBytes.der = "cert" =>
        (validDays >= 1 /\ Later(derBytes.NotAfter, derBytes.NotBefore))

\* the directory -o names, which does not exist before the run
OutputDir == <<111, 117, 116>>

\* C19: at every point the .crt file exists only if the .csr file is
\* completely written, the .csr file only if the .key file is completely
\* written, and no output file or directory exists unless key generation,
\* SAN encoding and CSR signing have succeeded.
C19_CreationOrder ==
    /\ (crtPath # NoPath /\ crtPath \in DOMAIN fs) =>
          (CSRFileWritten /\ KeyFileWritten /\ derBytes.der = "cert")
    /\ (csrPath # NoPath /\ csrPath \in DOMAIN fs) => KeyFileWritten
    /\ (keyPath # NoPath /\ keyPath \in DOMAIN fs) => keyPath.dir \in dirs
    /\ (keyPath # NoPath \/ OutputDir \in dirs) =>
          /\ privateKey \in {[id |-> i, bits |-> keySize, E |-> 65537, valid |-> TRUE] : i \in KeyIds}
          /\ template.ExtraExtensions =
                (IF Len(sans) > 0 THEN SANExt(encodeSANs(sans)) ELSE <<>>)
          /\ csrBytes = CreateCertificateRequest(template, privateKey)
    /\ DOMAIN fs \subseteq DOMAIN InitialDisk \cup {keyPath, csrPath, crtPath}

\* C19's case: the run is about to write the certificate into the created
\* directory, key and request written
C19_Witness ==
    /\ pc = "crtpem" /\ GenerationRun
    /\ OutputDir \in dirs /\ crtPath.dir = OutputDir
    /\ crtPath \in DOMAIN fs /\ fs[crtPath] = <<>>
    /\ KeyFileWritten /\ CSRFileWritten

\* C20: a generating run that has printed "Success!" ends with exit code 0.
C20_SuccessMeansExitZero ==
    (pc = "exit" /\ GenerationRun /\ Printed(<<"Success!">>)) => exitCode = 0

=============================================================================
